---- MODULE Spec2Model ----
(***************************************************************************)
(* The data-cleaning notebook of Credit-Risk-Assessment                    *)
(* (src/unnamed/part_000) as a state machine.                              *)
(*                                                                         *)
(* The notebook keeps one shared table variable, df, that every code cell  *)
(* reads and reassigns.  The state is that table (column names, column     *)
(* dtypes, cells), the spreadsheet it was loaded from, the position in the *)
(* notebook and what the diagnostic cells printed.  One action per code    *)
(* cell that touches df; after the recorded top-to-bottom run the cells    *)
(* that clean the table can be executed again, as a notebook allows.       *)
(*                                                                         *)
(* Cells.  A cell of the table is a number, a text or the missing marker   *)
(* (NaN).  Text is a sequence of one-character strings so that parsing is  *)
(* computed from the characters.  float64 values are modelled by the       *)
(* integers they hold (every number of the dataset is integral), so 20000  *)
(* stands for both the loaded 20000 and the converted 20000.0.             *)
(* Rows: pandas row position r is index r + 1 of a column's sequence.      *)
(***************************************************************************)
EXTENDS Integers, Sequences, FiniteSets, TLC

(***************************************************************************)
(* Bounds of the model                                                     *)
(***************************************************************************)
MaxDataRows == 2      \* data rows of the sheet below the label row
MaxReruns == 2        \* cell re-executions after the top-to-bottom run

(***************************************************************************)
(* Program constants                                                       *)
(***************************************************************************)
NumCols == 25         \* "Data set shape:  (30001, 25)"
NumDiagCols == 5      \* df.columns[:5] in the investigation cell

(***************************************************************************)
(* Cell values                                                             *)
(***************************************************************************)
Num(n) == [t |-> "num", v |-> n, s |-> <<>>]
Str(cs) == [t |-> "str", v |-> 0, s |-> cs]
NaN == [t |-> "nan", v |-> 0, s |-> <<>>]

IsNum(c) == c.t = "num"
IsStr(c) == c.t = "str"
IsNaN(c) == c.t = "nan"

(***************************************************************************)
(* The spreadsheet: two stacked header-like rows, then data.               *)
(***************************************************************************)
\* First physical row: a blank cell, X1..X23, Y.  read_excel(header=0)
\* consumes it as the schema.
PositionalHeader ==
  << "", "X1", "X2", "X3", "X4", "X5", "X6", "X7", "X8", "X9", "X10",
     "X11", "X12", "X13", "X14", "X15", "X16", "X17", "X18", "X19", "X20",
     "X21", "X22", "X23", "Y" >>

\* Second physical row: the descriptive labels, loaded as data row 0.
LabelRow ==
  << Str(<<"I", "D">>),
     Str(<<"L", "I", "M", "I", "T", "_", "B", "A", "L">>),
     Str(<<"S", "E", "X">>),
     Str(<<"E", "D", "U", "C", "A", "T", "I", "O", "N">>),
     Str(<<"M", "A", "R", "R", "I", "A", "G", "E">>),
     Str(<<"A", "G", "E">>),
     Str(<<"P", "A", "Y", "_", "0">>),
     Str(<<"P", "A", "Y", "_", "2">>),
     Str(<<"P", "A", "Y", "_", "3">>),
     Str(<<"P", "A", "Y", "_", "4">>),
     Str(<<"P", "A", "Y", "_", "5">>),
     Str(<<"P", "A", "Y", "_", "6">>),
     Str(<<"B", "I", "L", "L", "_", "A", "M", "T", "1">>),
     Str(<<"B", "I", "L", "L", "_", "A", "M", "T", "2">>),
     Str(<<"B", "I", "L", "L", "_", "A", "M", "T", "3">>),
     Str(<<"B", "I", "L", "L", "_", "A", "M", "T", "4">>),
     Str(<<"B", "I", "L", "L", "_", "A", "M", "T", "5">>),
     Str(<<"B", "I", "L", "L", "_", "A", "M", "T", "6">>),
     Str(<<"P", "A", "Y", "_", "A", "M", "T", "1">>),
     Str(<<"P", "A", "Y", "_", "A", "M", "T", "2">>),
     Str(<<"P", "A", "Y", "_", "A", "M", "T", "3">>),
     Str(<<"P", "A", "Y", "_", "A", "M", "T", "4">>),
     Str(<<"P", "A", "Y", "_", "A", "M", "T", "5">>),
     Str(<<"P", "A", "Y", "_", "A", "M", "T", "6">>),
     Str(<<"d", "e", "f", "a", "u", "l", "t", " ", "p", "a", "y", "m", "e",
           "n", "t", " ", "n", "e", "x", "t", " ", "m", "o", "n", "t", "h">>) >>

\* Texts a spreadsheet cell of a numeric column can hold.
TxtNA == <<"N", "/", "A">>
TxtPadded20000 == <<" ", "2", "0", "0", "0", "0", " ">>
TxtEmpty == <<>>
TxtMinus1 == <<"-", "1">>
TxtTwo == <<"2">>

\* The data rows the model draws from: the first rows the notebook prints
\* (LIMIT_BAL, SEX, EDUCATION, MARRIAGE, PAY_0, Y), rows with the codes the
\* value counts show (SEX 1, EDUCATION 0, 5 and 6, MARRIAGE 0 and 3), and rows with
\* the malformed cells docs/documentation.md lists.
RowKinds ==
  { [lim |-> Num(20000), sex |-> Num(2), edu |-> Num(2), mar |-> Num(1),
     pay0 |-> Num(2), y |-> Num(1)],
    [lim |-> Num(120000), sex |-> Num(2), edu |-> Num(2), mar |-> Num(2),
     pay0 |-> Num(-1), y |-> Num(1)],
    [lim |-> Num(90000), sex |-> Num(1), edu |-> Num(3), mar |-> Num(3),
     pay0 |-> Num(0), y |-> Num(0)],
    [lim |-> Num(50000), sex |-> Num(1), edu |-> Num(5), mar |-> Num(0),
     pay0 |-> Num(0), y |-> Num(0)],
    [lim |-> Str(TxtNA), sex |-> Num(2), edu |-> Num(1), mar |-> Num(1),
     pay0 |-> Str(TxtMinus1), y |-> Num(0)],
    [lim |-> Str(TxtPadded20000), sex |-> Str(TxtTwo), edu |-> Num(4),
     mar |-> Num(2), pay0 |-> Str(TxtEmpty), y |-> Num(1)],
    [lim |-> NaN, sex |-> Str(TxtNA), edu |-> Num(6), mar |-> Num(3),
     pay0 |-> NaN, y |-> Num(0)],
    [lim |-> Num(50000), sex |-> Num(2), edu |-> Num(0), mar |-> Num(2),
     pay0 |-> Num(-2), y |-> Num(0)] }

\* One physical data row: ID, LIMIT_BAL, SEX, EDUCATION, MARRIAGE, AGE,
\* PAY_0, ..., Y.
DataRow(k, id) ==
  [i \in 1..NumCols |->
     CASE i = 1 -> Num(id)
       [] i = 2 -> k.lim
       [] i = 3 -> k.sex
       [] i = 4 -> k.edu
       [] i = 5 -> k.mar
       [] i = 6 -> Num(24)
       [] i = 7 -> k.pay0
       [] i = NumCols -> k.y
       [] OTHER -> Num(0)]

\* A sheet: the positional header and the rows below it.
MakeSheet(kinds) ==
  [header |-> PositionalHeader,
   rows |-> <<LabelRow>> \o [r \in 1..Len(kinds) |-> DataRow(kinds[r], r)]]

Sheets ==
  UNION { { MakeSheet(kinds) : kinds \in [1..n -> RowKinds] } :
          n \in 1..MaxDataRows }

(***************************************************************************)
(* pd.to_numeric(series, errors='coerce')                                  *)
(***************************************************************************)
RECURSIVE LStrip(_)
LStrip(s) == IF s # <<>> /\ Head(s) = " " THEN LStrip(Tail(s)) ELSE s

RECURSIVE RStrip(_)
RStrip(s) ==
  IF s # <<>> /\ s[Len(s)] = " " THEN RStrip(SubSeq(s, 1, Len(s) - 1)) ELSE s

\* The number parser skips leading and trailing whitespace.
Strip(s) == RStrip(LStrip(s))

Digits == {"0", "1", "2", "3", "4", "5", "6", "7", "8", "9"}

DigitVal(c) ==
  CASE c = "0" -> 0 [] c = "1" -> 1 [] c = "2" -> 2 [] c = "3" -> 3
    [] c = "4" -> 4 [] c = "5" -> 5 [] c = "6" -> 6 [] c = "7" -> 7
    [] c = "8" -> 8 [] c = "9" -> 9

\* The characters after an optional sign.
Unsigned(t) == IF t # <<>> /\ Head(t) \in {"-", "+"} THEN Tail(t) ELSE t

\* A text the parser accepts: optional sign, then one or more digits, with
\* surrounding blanks ignored.  (Decimal points and exponents do not occur
\* in the texts of the model.)
IsNumeral(s) ==
  LET body == Unsigned(Strip(s))
  IN  body # <<>> /\ \A i \in 1..Len(body) : body[i] \in Digits

RECURSIVE DigitsValue(_)
DigitsValue(ds) ==
  IF ds = <<>> THEN 0
  ELSE 10 * DigitsValue(SubSeq(ds, 1, Len(ds) - 1)) + DigitVal(ds[Len(ds)])

NumeralValue(s) ==
  LET t == Strip(s)
  IN  IF t # <<>> /\ Head(t) = "-" THEN 0 - DigitsValue(Unsigned(t))
      ELSE DigitsValue(Unsigned(t))

CoerceCellZero(c) ==
  CASE IsNum(c) -> c
    [] IsNaN(c) -> NaN
    [] IsStr(c) -> IF IsNumeral(c.s) THEN Num(NumeralValue(c.s)) ELSE Num(0)

CoerceCellKeep(c) ==
  IF IsStr(c) /\ IsNumeral(c.s) THEN Num(NumeralValue(c.s)) ELSE c

\* One cell under errors='coerce': a number passes through, a missing cell
\* stays missing, a text is parsed, and a text that does not parse (the
\* empty text included) becomes the missing marker.  Nothing is raised.
CoerceCell(c) ==
  CASE IsNum(c) -> c
    [] IsNaN(c) -> NaN
    [] IsStr(c) -> IF IsNumeral(c.s) THEN Num(NumeralValue(c.s)) ELSE NaN

IsNumericDtype(dt) == dt \in {"int64", "float64"}

ToNumericObject(cells, dtype) ==
  [values |-> [r \in 1..Len(cells) |-> CoerceCell(cells[r])],
   dtype |-> dtype]

ToNumericIgnore(cells, dtype) ==
  IF \E r \in 1..Len(cells) : IsNaN(CoerceCell(cells[r])) /\ ~IsNaN(cells[r])
  THEN [values |-> cells, dtype |-> dtype]
  ELSE [values |-> [r \in 1..Len(cells) |-> CoerceCell(cells[r])],
        dtype |-> IF \E r \in 1..Len(cells) : IsNaN(cells[r])
                  THEN "float64" ELSE "int64"]

\* A whole column.  A column that is already numeric is returned as it is;
\* an object column is converted cell by cell, and the result is float64
\* as soon as one cell is missing, int64 otherwise.
ToNumeric(cells, dtype) ==
  IF IsNumericDtype(dtype) THEN [values |-> cells, dtype |-> dtype]
  ELSE LET vals == [r \in 1..Len(cells) |-> CoerceCell(cells[r])]
       IN  [values |-> vals,
            dtype |-> IF \E r \in 1..Len(vals) : IsNaN(vals[r])
                      THEN "float64" ELSE "int64"]

\* series.isna().sum()
NaCount(cells) == Cardinality({r \in 1..Len(cells) : IsNaN(cells[r])})

(***************************************************************************)
(* The table (DataFrame): column names, dtypes and cells, column by column *)
(***************************************************************************)
NoFrame == [columns |-> <<>>, dtypes |-> <<>>, data |-> <<>>]

NCols(d) == Len(d.columns)
NRows(d) == IF d.data = <<>> THEN 0 ELSE Len(d.data[1])
HasCol(d, name) == \E i \in 1..NCols(d) : d.columns[i] = name
ColPos(d, name) == CHOOSE i \in 1..NCols(d) : d.columns[i] = name

\* df[name]
Column(d, name) == d.data[ColPos(d, name)]
\* df[name].iloc[r], r counted from 0
CellAt(d, name, r) == Column(d, name)[r + 1]

\* The dtype pandas gives a loaded column: object when a text is present.
InferDtype(cells) ==
  IF \E r \in 1..Len(cells) : IsStr(cells[r]) THEN "object"
  ELSE IF \E r \in 1..Len(cells) : IsNaN(cells[r]) THEN "float64"
  ELSE "int64"

\* A blank header cell at position 0 is named "Unnamed: 0".
ColumnName(h, i) == IF h[i] = "" THEN "Unnamed: 0" ELSE h[i]

ReadExcelSkipLabels(sh) ==
  LET cols == [i \in 1..Len(sh.header) |-> ColumnName(sh.header, i)]
      dat == [i \in 1..Len(sh.header) |->
                [r \in 1..(Len(sh.rows) - 1) |-> sh.rows[r + 1][i]]]
  IN  [columns |-> cols,
       dtypes |-> [i \in 1..Len(cols) |-> InferDtype(dat[i])],
       data |-> dat]

\* pd.read_excel(path, header=0): the first physical row names the columns,
\* every row below it is data; no row is skipped.
ReadExcel(sh) ==
  LET cols == [i \in 1..Len(sh.header) |-> ColumnName(sh.header, i)]
      dat == [i \in 1..Len(sh.header) |->
                [r \in 1..Len(sh.rows) |-> sh.rows[r][i]]]
  IN  [columns |-> cols,
       dtypes |-> [i \in 1..Len(cols) |-> InferDtype(dat[i])],
       data |-> dat]

(***************************************************************************)
(* Configuration written in the notebook                                   *)
(***************************************************************************)
\* dtypes_dict: the descriptive names with the dtype wanted for each.
DtypesDict ==
  << <<"ID", "int32">>, <<"LIMIT_BAL", "float64">>, <<"SEX", "int8">>,
     <<"EDUCATION", "int8">>, <<"MARRIAGE", "int8">>, <<"AGE", "int32">>,
     <<"PAY_0", "int8">>, <<"PAY_2", "int8">>, <<"PAY_3", "int8">>,
     <<"PAY_4", "int8">>, <<"PAY_5", "int8">>, <<"PAY_6", "int8">>,
     <<"BILL_AMT1", "float64">>, <<"BILL_AMT2", "float64">>,
     <<"BILL_AMT3", "float64">>, <<"BILL_AMT4", "float64">>,
     <<"BILL_AMT5", "float64">>, <<"BILL_AMT6", "float64">>,
     <<"PAY_AMT1", "float64">>, <<"PAY_AMT2", "float64">>,
     <<"PAY_AMT3", "float64">>, <<"PAY_AMT4", "float64">>,
     <<"PAY_AMT5", "float64">>, <<"PAY_AMT6", "float64">>,
     <<"default.payment.next.month", "int8">> >>

\* column_mapping: current name, descriptive name.
ColumnMapping ==
  << <<"X1", "CREDIT_AMOUNT">>, <<"X2", "GENDER">>, <<"X3", "EDUCATION">>,
     <<"X4", "MARITAL_STATUS">>, <<"X5", "AGE">>, <<"X6", "PAY_SEPT">>,
     <<"X7", "PAY_AUG">>, <<"X8", "PAY_JUL">>, <<"X9", "PAY_JUN">>,
     <<"X10", "PAY_MAY">>, <<"X11", "PAY_APR">>, <<"X12", "BILL_SEPT">>,
     <<"X13", "BILL_AUG">>, <<"X14", "BILL_JUL">>, <<"X15", "BILL_JUN">>,
     <<"X16", "BILL_MAY">>, <<"X17", "BILL_APR">>,
     <<"X18", "PAY_AMT_SEPT">>, <<"X19", "PAY_AMT_AUG">>,
     <<"X20", "PAY_AMT_JUL">>, <<"X21", "PAY_AMT_JUN">>,
     <<"X22", "PAY_AMT_MAY">>, <<"X23", "PAY_AMT_APR">>,
     <<"default.payment.next.month", "DEFAULT">> >>

\* The labels of the three category mappings.
Male == <<"M", "a", "l", "e">>
Female == <<"F", "e", "m", "a", "l", "e">>
GraduateSchool ==
  <<"G", "r", "a", "d", "u", "a", "t", "e", " ", "S", "c", "h", "o", "o", "l">>
University == <<"U", "n", "i", "v", "e", "r", "s", "i", "t", "y">>
HighSchool == <<"H", "i", "g", "h", " ", "S", "c", "h", "o", "o", "l">>
Other == <<"O", "t", "h", "e", "r">>
Married == <<"M", "a", "r", "r", "i", "e", "d">>
Single == <<"S", "i", "n", "g", "l", "e">>

GenderMap == (1 :> Male) @@ (2 :> Female)
EducationMap ==
  (1 :> GraduateSchool) @@ (2 :> University) @@ (3 :> HighSchool)
    @@ (4 :> Other)
MaritalMap == (1 :> Married) @@ (2 :> Single) @@ (3 :> Other)

\* The three statements of the labeling cell, in order.
LabelStatements ==
  << [col |-> "GENDER", map |-> GenderMap],
     [col |-> "EDUCATION", map |-> EducationMap],
     [col |-> "MARITAL_STATUS", map |-> MaritalMap] >>

(***************************************************************************)
(* What the cells do to the table                                          *)
(***************************************************************************)
\* df[name] = series
SetColumn(d, name, res) ==
  LET p == ColPos(d, name)
  IN  [d EXCEPT !.data[p] = res.values, !.dtypes[p] = res.dtype]

\* print(f"NA count if converted: {pd.to_numeric(df[col],
\* errors='coerce').isna().sum()}") for col in df.columns[:5]
Investigate(d) ==
  LET n == IF NCols(d) < NumDiagCols THEN NCols(d) ELSE NumDiagCols
  IN  [i \in 1..n |-> NaCount(ToNumeric(d.data[i], d.dtypes[i]).values)]

\* One element under astype: int(x) / float(x).
CanCast(c, dt) ==
  CASE IsNum(c) -> TRUE
    [] IsStr(c) -> IsNumeral(c.s)
    [] IsNaN(c) -> dt = "float64"

AstypeIgnore(d) ==
  [df |-> d, msg |-> "Data types successfully converted!"]

AstypeCoerce(d) ==
  [df |-> [d EXCEPT
             !.dtypes = [i \in 1..NCols(d) |->
                           ToNumeric(d.data[i], d.dtypes[i]).dtype],
             !.data = [i \in 1..NCols(d) |->
                         ToNumeric(d.data[i], d.dtypes[i]).values]],
   msg |-> "Error converting data types"]

\* df = df.astype(dtypes_dict) inside try/except.  A key that is not a
\* column raises before anything is converted, and so does a cell that
\* cannot be cast; the exception is caught and df is not reassigned.
Astype(d) ==
  LET keys == 1..Len(DtypesDict)
      missing == {k \in keys : ~HasCol(d, DtypesDict[k][1])}
      badCast ==
        {k \in keys \ missing :
           \E r \in 1..NRows(d) :
             ~CanCast(Column(d, DtypesDict[k][1])[r], DtypesDict[k][2])}
      target(i) ==
        LET k == CHOOSE k \in keys : DtypesDict[k][1] = d.columns[i]
        IN  DtypesDict[k][2]
      keyed(i) == \E k \in keys : DtypesDict[k][1] = d.columns[i]
  IN  IF missing # {} \/ badCast # {}
      THEN [df |-> d, msg |-> "Error converting data types"]
      ELSE [df |->
              [d EXCEPT
                 !.dtypes = [i \in 1..NCols(d) |->
                               IF keyed(i) THEN target(i) ELSE d.dtypes[i]],
                 !.data = [i \in 1..NCols(d) |->
                             IF keyed(i)
                             THEN [r \in 1..NRows(d) |->
                                     CoerceCell(d.data[i][r])]
                             ELSE d.data[i]]],
            msg |-> "Data types successfully converted!"]

\* The cells of a sequence at the positions of keep, in order.
RECURSIVE SelectRows(_, _, _)
SelectRows(cells, keep, r) ==
  IF r > Len(cells) THEN <<>>
  ELSE (IF r \in keep THEN <<cells[r]>> ELSE <<>>)
         \o SelectRows(cells, keep, r + 1)

ConvertColumnDropNa(d, name) ==
  LET p == ColPos(d, name)
      res == ToNumeric(d.data[p], d.dtypes[p])
      keep == {r \in 1..NRows(d) : ~IsNaN(res.values[r])}
  IN  [d EXCEPT
         !.data = [i \in 1..NCols(d) |->
                     SelectRows(IF i = p THEN res.values ELSE d.data[i],
                                keep, 1)],
         !.dtypes[p] = res.dtype]

\* df['X6'] = pd.to_numeric(df['X6'], errors='coerce')
ConvertColumn(d, name) ==
  SetColumn(d, name, ToNumeric(Column(d, name), d.dtypes[ColPos(d, name)]))

\* series.fillna(0)
FillNa(cells) ==
  [r \in 1..Len(cells) |-> IF IsNaN(cells[r]) THEN Num(0) ELSE cells[r]]

RetypeLoopAllFilled(d) ==
  LET res == [i \in 1..NCols(d) |-> ToNumeric(d.data[i], d.dtypes[i])]
  IN  [d EXCEPT
         !.data = [i \in 1..NCols(d) |-> FillNa(res[i].values)],
         !.dtypes = [i \in 1..NCols(d) |-> "float64"]]

RetypeLoopNumberOnly(d) ==
  LET res == [i \in 1..NCols(d) |-> ToNumeric(d.data[i], d.dtypes[i])]
  IN  [d EXCEPT
         !.data = [i \in 1..NCols(d) |->
                     IF IsNumericDtype(d.dtypes[i]) THEN res[i].values
                     ELSE d.data[i]],
         !.dtypes = [i \in 1..NCols(d) |->
                       IF IsNumericDtype(d.dtypes[i]) THEN res[i].dtype
                       ELSE d.dtypes[i]]]

\* for col in df.select_dtypes(include='object'):
\*     df[col] = pd.to_numeric(df[col], errors='coerce')
\* The columns are selected once, before the loop; each selected column is
\* replaced by its conversion, the others are not touched.
RetypeLoop(d) ==
  LET res == [i \in 1..NCols(d) |-> ToNumeric(d.data[i], d.dtypes[i])]
  IN  [d EXCEPT
         !.data = [i \in 1..NCols(d) |->
                     IF d.dtypes[i] = "object" THEN res[i].values
                     ELSE d.data[i]],
         !.dtypes = [i \in 1..NCols(d) |->
                       IF d.dtypes[i] = "object" THEN res[i].dtype
                       ELSE d.dtypes[i]]]

MappingKeys == {ColumnMapping[k][1] : k \in 1..Len(ColumnMapping)}

NewNameMerged(c) ==
  IF c \in {"X6", "X7"} THEN "PAY_SEPT"
  ELSE IF c \in MappingKeys
       THEN ColumnMapping[CHOOSE k \in 1..Len(ColumnMapping) :
                            ColumnMapping[k][1] = c][2]
       ELSE c

NewNameTarget(c) ==
  IF c = "Y" THEN "DEFAULT"
  ELSE IF c \in MappingKeys
       THEN ColumnMapping[CHOOSE k \in 1..Len(ColumnMapping) :
                            ColumnMapping[k][1] = c][2]
       ELSE c

NewNameChained(c) ==
  IF c = "EDUCATION" THEN "EDUCATION_LEVEL"
  ELSE IF c \in MappingKeys
       THEN ColumnMapping[CHOOSE k \in 1..Len(ColumnMapping) :
                            ColumnMapping[k][1] = c][2]
       ELSE c

\* column_mapping.get(c, c)
NewName(c) ==
  IF c \in MappingKeys
  THEN ColumnMapping[CHOOSE k \in 1..Len(ColumnMapping) :
                       ColumnMapping[k][1] = c][2]
  ELSE c

RenameErrorsRaise == "raise"

\* df.rename is called without errors=, so the default applies.
RenameErrors == "ignore"

PositionalNames(cols) ==
  [i \in 1..Len(cols) |->
     IF i <= Len(ColumnMapping) THEN ColumnMapping[i][2] ELSE cols[i]]

\* The new column index: every name that is a key of the mapping is
\* replaced by its target, every other name is kept, position by position.
RenameColumns(cols) == [i \in 1..Len(cols) |-> NewName(cols[i])]

RenameSelect(d) ==
  LET keep == {i \in 1..NCols(d) : d.columns[i] \in MappingKeys}
      nth(j) == CHOOSE i \in keep :
                  Cardinality({h \in keep : h < i}) = j - 1
      n == Cardinality(keep)
  IN  [columns |-> [j \in 1..n |-> NewName(d.columns[nth(j)])],
       dtypes |-> [j \in 1..n |-> d.dtypes[nth(j)]],
       data |-> [j \in 1..n |-> d.data[nth(j)]]]

\* df = df.rename(columns=column_mapping): only the labels change.
Rename(d) == [d EXCEPT !.columns = RenameColumns(d.columns)]

\* With errors='raise' a key that is no column raises KeyError.
RenameRaises(d) ==
  RenameErrors = "raise" /\ \E k \in MappingKeys : ~HasCol(d, k)

MapCellKeep(c, m) ==
  IF IsNum(c) /\ c.v \in DOMAIN m THEN Str(m[c.v]) ELSE c

MapCellPass(c, m) ==
  IF IsNum(c) /\ c.v \in DOMAIN m THEN Str(m[c.v])
  ELSE IF IsStr(c) THEN c ELSE NaN

\* One element under Series.map(dict): a value that is a key of the
\* mapping becomes its label; anything else (a code that is no key, a
\* text, a missing cell) becomes the missing marker.  Nothing is raised.
MapCell(c, m) ==
  IF IsNum(c) /\ c.v \in DOMAIN m THEN Str(m[c.v]) ELSE NaN

MapColumnDropUnmapped(d, name, m) ==
  LET p == ColPos(d, name)
      keep == {r \in 1..NRows(d) : ~IsNaN(MapCell(d.data[p][r], m))}
      kept == [i \in 1..NCols(d) |-> SelectRows(d.data[i], keep, 1)]
  IN  [d EXCEPT
         !.data = [i \in 1..NCols(d) |->
                     IF i = p
                     THEN [r \in 1..Len(kept[i]) |-> MapCell(kept[i][r], m)]
                     ELSE kept[i]],
         !.dtypes[p] = "object"]

\* df[name] = df[name].map(mapping); the result holds labels, so it is an
\* object column.
MapColumn(d, name, m) ==
  LET cells == Column(d, name)
  IN  SetColumn(d, name,
                [values |-> [r \in 1..Len(cells) |-> MapCell(cells[r], m)],
                 dtype |-> "object"])

\* The labeling cell: its statements run in order; a statement whose
\* column does not exist raises KeyError and the rest of the cell is
\* skipped.
RECURSIVE LabelFrom(_, _)
LabelFrom(d, k) ==
  IF k > Len(LabelStatements) THEN [df |-> d, err |-> "none"]
  ELSE IF ~HasCol(d, LabelStatements[k].col)
       THEN [df |-> d, err |-> "KeyError"]
       ELSE LabelFrom(MapColumn(d, LabelStatements[k].col,
                                LabelStatements[k].map), k + 1)

LabelCell(d) == LabelFrom(d, 1)

\* The cells of a column whose value is a code that is no key of m.
UnmappedCount(cells, m) ==
  Cardinality({r \in 1..Len(cells) :
                 IsNum(cells[r]) /\ cells[r].v \notin DOMAIN m})

LabelReportCounts(d) ==
  [k \in 1..Len(LabelStatements) |->
     IF HasCol(d, LabelStatements[k].col)
     THEN UnmappedCount(Column(d, LabelStatements[k].col),
                        LabelStatements[k].map)
     ELSE 0]

\* What the labeling cell prints: it has no print statement and its
\* recorded outputs are empty.
LabelReport(d) == <<>>

(***************************************************************************)
(* The notebook as a state machine                                         *)
(***************************************************************************)
VARIABLES
  sheet,     \* the spreadsheet at cc_data_path
  df,        \* the shared table variable
  pc,        \* the next cell of the top-to-bottom run, "done" after it
  last,      \* the cell executed last
  reruns,    \* cells executed again after the run
  naCount,   \* "NA count if converted" printed for the first columns
  msg,       \* what the astype cell printed
  labelOut,  \* what the labeling cell printed
  err        \* an exception that left a cell, "none" if there is none

vars == <<sheet, df, pc, last, reruns, naCount, msg, labelOut, err>>

CellOrderLabelFirst ==
  << "load", "investigate", "astype", "x6", "retype", "label", "rename" >>

\* The code cells that read or assign df, in notebook order.
CellOrder ==
  << "load", "investigate", "astype", "x6", "retype", "rename", "label" >>

\* The cells of the cleaning pipeline can be executed again.
RerunCells == {"retype", "rename", "label"}

CellAfterSame(c) == c

\* The cell below c, "done" below the last one.
CellAfter(c) ==
  LET k == CHOOSE k \in 1..Len(CellOrder) : CellOrder[k] = c
  IN  IF k = Len(CellOrder) THEN "done" ELSE CellOrder[k + 1]

\* The position of a cell in the notebook; "done" is below every cell.
CellRank(c) ==
  IF c = "done" THEN Len(CellOrder) + 1
  ELSE CHOOSE k \in 1..Len(CellOrder) : CellOrder[k] = c

\* A cell runs when the run has come to it, or is executed again by hand
\* once the run is past it (the cells that work on the shared df only).
CanRun(c) ==
  /\ err = "none"
  /\ \/ pc = c
     \/ /\ c \in RerunCells
        /\ CellRank(pc) > CellRank(c)
        /\ reruns < MaxReruns

\* Bookkeeping of one executed cell: the run moves on, a re-execution
\* leaves the run where it is.
Ran(c) ==
  /\ last' = c
  /\ pc' = IF pc = c THEN CellAfter(c) ELSE pc
  /\ reruns' = IF pc = c THEN reruns ELSE reruns + 1

Init ==
  /\ sheet \in Sheets
  /\ df = NoFrame
  /\ pc = "load"
  /\ last = "none"
  /\ reruns = 0
  /\ naCount = <<>>
  /\ msg = ""
  /\ labelOut = <<>>
  /\ err = "none"

\* Cell 6eb3c793a7fd5cbb: df = pd.read_excel(cc_data_path, header=0)
Load ==
  /\ CanRun("load")
  /\ df' = ReadExcel(sheet)
  /\ Ran("load")
  /\ UNCHANGED <<sheet, naCount, msg, labelOut, err>>

\* Cell db2d2fbceb99be22: the per-column diagnostic; df is only read.
InvestigateCell ==
  /\ CanRun("investigate")
  /\ naCount' = Investigate(df)
  /\ Ran("investigate")
  /\ UNCHANGED <<sheet, df, msg, labelOut, err>>

\* Cell 13b1110aad459e9f: the dictionary-driven conversion attempt.
AstypeCell ==
  /\ CanRun("astype")
  /\ df' = Astype(df).df
  /\ msg' = Astype(df).msg
  /\ Ran("astype")
  /\ UNCHANGED <<sheet, naCount, labelOut, err>>

\* Cell a751ad1409733b58: the single-column fix of X6.
ConvertX6 ==
  /\ CanRun("x6")
  /\ IF HasCol(df, "X6")
     THEN df' = ConvertColumn(df, "X6") /\ err' = err
     ELSE df' = df /\ err' = "KeyError"
  /\ Ran("x6")
  /\ UNCHANGED <<sheet, naCount, msg, labelOut>>

\* Cell dbcb0afed5977d8f: the loop over the object-typed columns.
RetypeCell ==
  /\ CanRun("retype")
  /\ df' = RetypeLoop(df)
  /\ Ran("retype")
  /\ UNCHANGED <<sheet, naCount, msg, labelOut, err>>

\* Cell 8f4d3ba697421c9b: the rename.
RenameCell ==
  /\ CanRun("rename")
  /\ IF RenameRaises(df)
     THEN df' = df /\ err' = "KeyError"
     ELSE df' = Rename(df) /\ err' = err
  /\ Ran("rename")
  /\ UNCHANGED <<sheet, naCount, msg, labelOut>>

\* Cell 158cf2fa524c96c9: the three category mappings.
LabelingCell ==
  /\ CanRun("label")
  /\ df' = LabelCell(df).df
  /\ err' = LabelCell(df).err
  /\ labelOut' = LabelReport(df)
  /\ Ran("label")
  /\ UNCHANGED <<sheet, naCount, msg>>

Next ==
  \/ Load
  \/ InvestigateCell
  \/ AstypeCell
  \/ ConvertX6
  \/ RetypeCell
  \/ RenameCell
  \/ LabelingCell

Spec == Init /\ [][Next]_vars

\* The recorded execution (execution_count 2..12): every cell once, from
\* top to bottom, nothing executed again.
RunNext == Next /\ last' = pc

SpecRun == Init /\ [][RunNext]_vars

\* "Run All" executes the next cell as long as there is one.
FairRun == SpecRun /\ WF_vars(RunNext)

TypeOK ==
  /\ pc \in {"load", "investigate", "astype", "x6", "retype", "rename",
             "label", "done"}
  /\ reruns \in 0..MaxReruns
  /\ err \in {"none", "KeyError"}
  /\ Len(df.columns) = Len(df.dtypes) /\ Len(df.columns) = Len(df.data)

(***************************************************************************)
(* Vocabulary of the properties                                            *)
(***************************************************************************)
\* The table as the load cell produced it.
Loaded == ReadExcel(sheet)

\* The sheet's data rows are fully numeric below the label row.
Canonical(sh) ==
  \A r \in 2..Len(sh.rows) : \A i \in 1..NumCols : IsNum(sh.rows[r][i])

\* A text that does not parse as a number.
Unparseable(c) == IsStr(c) /\ ~IsNumeral(c.s)

UnparseableCount(cells) ==
  Cardinality({r \in 1..Len(cells) : Unparseable(cells[r])})

\* The top-to-bottom run is just past the retype loop / the rename /
\* the labeling cell.
JustRetyped == last = "retype" /\ pc = "rename"
JustRenamed == last = "rename" /\ pc = "label"
JustLabeled == last = "label" /\ reruns = 0

\* The retype loop has run at least once.
Retyped == pc \in {"rename", "label", "done"}

LabelCols == {LabelStatements[k].col : k \in 1..Len(LabelStatements)}

\* Every column of the labeling cell exists and holds labels.
AlreadyLabeled(d) ==
  \A c \in LabelCols : HasCol(d, c) /\ d.dtypes[ColPos(d, c)] = "object"

\* C1: once the stage after header excision (the retyper) has run, the
\* table has exactly one fewer row than it had after loading: row 0, the
\* label row, is no longer among the data rows.
C1_LabelRowExcised ==
  Retyped => NRows(df) = NRows(Loaded) - 1

\* C2: after the retyper has run, every column holds only numbers or the
\* missing marker and is typed numeric, never free-form text, until the
\* labeling cell turns that column into a column of labels; and in every
\* state a column typed numeric holds no text.
C2_NumericColumnsHoldNoText ==
  /\ \A i \in 1..NCols(df) :
       IsNumericDtype(df.dtypes[i]) =>
         \A r \in 1..NRows(df) : ~IsStr(df.data[i][r])
  /\ Retyped =>
       \A i \in 1..NCols(df) :
         \/ df.columns[i] \in LabelCols /\ df.dtypes[i] = "object"
         \/ /\ IsNumericDtype(df.dtypes[i])
            /\ \A r \in 1..NRows(df) : ~IsStr(df.data[i][r])

C2_Witness ==
  /\ JustRetyped
  /\ \E r \in 1..NRows(df) :
       /\ Loaded.data[2][r] = Str(TxtNA)
       /\ df.data[2][r] = NaN
  /\ df.dtypes[2] = "float64"

\* C3: after the retyper has run on the canonical dataset, coercion has
\* introduced no missing value in any column: each column holds as many
\* missing cells as it held after loading.
C3_NoMissingIntroduced ==
  (JustRetyped /\ Canonical(sheet)) =>
    \A i \in 1..NCols(df) : NaCount(df.data[i]) = NaCount(Loaded.data[i])

\* C4: retyping never raises on a cell that does not parse: the cell
\* becomes the missing marker, every other cell keeps or gets its number,
\* and the per-column missing count (printed by the investigation cell,
\* and found in the retyped column) is the number of cells that were
\* missing already plus exactly one for each cell that does not parse.
C4_UnparseableCellsCoerced ==
  /\ naCount # <<>> =>
       \A i \in 1..NumDiagCols :
         naCount[i] = NaCount(Loaded.data[i])
                        + UnparseableCount(Loaded.data[i])
  /\ JustRetyped =>
       /\ err = "none"
       /\ \A i \in 1..NCols(df) :
            /\ NaCount(df.data[i]) = NaCount(Loaded.data[i])
                                       + UnparseableCount(Loaded.data[i])
            /\ \A r \in 1..NRows(df) :
                 LET c == Loaded.data[i][r]
                     c2 == df.data[i][r]
                 IN  /\ Unparseable(c) => c2 = NaN
                     /\ IsNaN(c) => c2 = NaN
                     /\ IsNum(c) => c2 = c
                     /\ (IsStr(c) /\ IsNumeral(c.s)) => IsNum(c2)
                     /\ c = Str(TxtNA) => c2 = NaN
                     /\ c = Str(TxtEmpty) => c2 = NaN
                     /\ c = Str(TxtPadded20000) => c2 = Num(20000)
                     /\ c = Str(TxtMinus1) => c2 = Num(-1)
                     /\ c = Str(TxtTwo) => c2 = Num(2)

C4_Witness ==
  /\ JustRetyped
  /\ err = "none"
  /\ \E r \in 1..NRows(df) :
       /\ Loaded.data[2][r] = Str(TxtNA)
       /\ df.data[2][r] = NaN
  /\ naCount[2] = 2
  /\ NaCount(df.data[2]) = 2

\* C5 (as stated): the rename fails with UnknownColumn and renames nothing
\* when a key of the mapping ('default.payment.next.month') matches no
\* column of the table.
C5_RenameFailsOnUnknownKey ==
  (JustRenamed /\ \E k \in MappingKeys : ~HasCol(Loaded, k)) =>
    err # "none" /\ df.columns = Loaded.columns

\* C5 (amended): the rename never fails; a key of the mapping that matches
\* no column is ignored and every key that matches a column is renamed:
\* X1..X23 are replaced by their descriptive names and 'Y' stays.
C5_RenameIgnoresUnknownKey ==
  JustRenamed =>
    /\ err = "none"
    /\ \A k \in 1..Len(ColumnMapping) :
         HasCol(Loaded, ColumnMapping[k][1]) =>
           /\ HasCol(df, ColumnMapping[k][2])
           /\ ~HasCol(df, ColumnMapping[k][1])
    /\ ~HasCol(df, "DEFAULT")
    /\ HasCol(df, "Y")

C5_Witness ==
  /\ JustRenamed
  /\ ~HasCol(Loaded, "default.payment.next.month")
  /\ HasCol(df, "CREDIT_AMOUNT")
  /\ HasCol(df, "PAY_AMT_APR")
  /\ err = "none"

\* C6: rename round trip: for every row and every pair (old, new) of the
\* mapping whose old name is a column, the value read under the new name
\* after the rename is the value read under the old name before it.
C6_RenameRoundTrip ==
  [][(last' = "rename" /\ err' = "none") =>
       \A k \in 1..Len(ColumnMapping) :
         HasCol(df, ColumnMapping[k][1]) =>
           /\ HasCol(df', ColumnMapping[k][2])
           /\ \A r \in 0..(NRows(df) - 1) :
                CellAt(df', ColumnMapping[k][2], r)
                  = CellAt(df, ColumnMapping[k][1], r)]_vars

C6_Witness ==
  /\ JustRenamed
  /\ CellAt(Loaded, "X1", 1) = Num(20000)
  /\ CellAt(df, "CREDIT_AMOUNT", 1) = Num(20000)
  /\ CellAt(df, "GENDER", 1) = Num(2)

\* C7: the rename preserves column order: the number of columns is
\* unchanged and the column at each position is the column that was there
\* before, under its old name or under the name the mapping gives it.
C7_RenamePreservesOrder ==
  [][(last' = "rename" /\ err' = "none") =>
       /\ NCols(df') = NCols(df)
       /\ \A i \in 1..NCols(df) :
            /\ \/ df'.columns[i] = df.columns[i]
               \/ \E k \in 1..Len(ColumnMapping) :
                    ColumnMapping[k] = <<df.columns[i], df'.columns[i]>>
            /\ df'.data[i] = df.data[i]
            /\ df'.dtypes[i] = df.dtypes[i]]_vars

C7_Witness ==
  /\ JustRenamed
  /\ NCols(df) = NumCols
  /\ df.columns[1] = "Unnamed: 0"
  /\ df.columns[2] = "CREDIT_AMOUNT"
  /\ df.columns[24] = "PAY_AMT_APR"
  /\ df.columns[NumCols] = "Y"

\* C8: in the labeling cell a code that is no key of the column's mapping
\* (MARITAL_STATUS 0, EDUCATION 0, 5, 6) becomes the missing marker and
\* nothing is raised, and every code that is a key becomes exactly its
\* label.
C8_UnmappedCodesBecomeMissing ==
  [][(last' = "label" /\ pc = "label") =>
       /\ err' = "none"
       /\ \A k \in 1..Len(LabelStatements) :
            LET st == LabelStatements[k]
            IN  \A r \in 0..(NRows(df) - 1) :
                  LET c == CellAt(df, st.col, r)
                      c2 == CellAt(df', st.col, r)
                  IN  /\ (IsNum(c) /\ c.v \in DOMAIN st.map)
                          => c2 = Str(st.map[c.v])
                      /\ (IsNum(c) /\ c.v \notin DOMAIN st.map)
                          => c2 = NaN
       /\ \A r \in 0..(NRows(df) - 1) :
            /\ CellAt(df, "MARITAL_STATUS", r) = Num(0)
                 => CellAt(df', "MARITAL_STATUS", r) = NaN
            /\ CellAt(df, "EDUCATION", r) \in {Num(0), Num(5), Num(6)}
                 => CellAt(df', "EDUCATION", r) = NaN
            /\ CellAt(df, "GENDER", r) = Num(2)
                 => CellAt(df', "GENDER", r) = Str(Female)]_vars

C8_Witness ==
  /\ JustLabeled
  /\ err = "none"
  /\ \E r \in 1..(NRows(df) - 1) :
       /\ CellAt(Loaded, "X4", r) = Num(0)
       /\ CellAt(df, "MARITAL_STATUS", r) = NaN
       /\ CellAt(Loaded, "X3", r) = Num(5)
       /\ CellAt(df, "EDUCATION", r) = NaN
       /\ CellAt(df, "GENDER", r) = Str(Male)

\* C9 (as stated): with the repository's mappings, applying the labeling
\* a second time to the already labeled columns leaves them unchanged.
C9_SecondLabelingIsNoOp ==
  [][(last' = "label" /\ pc = "done" /\ AlreadyLabeled(df)) =>
       \A c \in LabelCols : Column(df', c) = Column(df, c)]_vars

\* C9 (amended): with the repository's mappings, whose integer codes are
\* disjoint from their labels, applying the labeling a second time to the
\* already labeled columns is not a no-op: no label is a key, so every
\* cell of the three columns becomes (or stays) the missing marker, and
\* nothing is raised.
C9_SecondLabelingErasesLabels ==
  [][(last' = "label" /\ pc = "done" /\ AlreadyLabeled(df)) =>
       /\ err' = "none"
       /\ \A c \in LabelCols :
            \A r \in 0..(NRows(df) - 1) : CellAt(df', c, r) = NaN]_vars

C9_Witness ==
  /\ last = "label"
  /\ reruns = 1
  /\ \E r \in 1..(NRows(df) - 1) :
       /\ CellAt(Loaded, "X2", r) = Num(2)
       /\ CellAt(df, "GENDER", r) = NaN

\* C10: for a sheet whose first loaded row is the label row and whose next
\* row has LIMIT_BAL 20000 and SEX 2, after the full run CREDIT_AMOUNT at
\* row 0 is 20000.0 and GENDER is "Female" in every row whose SEX code
\* was 2.
C10_ScenarioAfterPipeline ==
  (/\ JustLabeled
   /\ pc = "done"
   /\ sheet.rows[1] = LabelRow
   /\ sheet.rows[2][2] = Num(20000)
   /\ sheet.rows[2][3] = Num(2)) =>
    /\ CellAt(df, "CREDIT_AMOUNT", 0) = Num(20000)
    /\ \A r \in 0..(NRows(df) - 1) :
         CellAt(Loaded, "X2", r) = Num(2)
           => CellAt(df, "GENDER", r) = Str(Female)

\* The column of the table that holds the target (the sheet's last column).
TargetPos == NumCols

\* C11: at the end of the run the table has a clean schema: every column
\* that is not labeled is typed numeric, the target column carries its
\* descriptive name 'DEFAULT' and is typed as a small integer, and the
\* three demographic columns are columns of labels.
C11_CleanSchema ==
  JustLabeled =>
    /\ \A i \in 1..NCols(df) :
         df.columns[i] \notin LabelCols =>
           df.dtypes[i] \in {"int8", "int32", "int64", "float64"}
    /\ df.columns[TargetPos] = "DEFAULT"
    /\ df.dtypes[TargetPos] \in {"int8", "bool"}
    /\ \A c \in LabelCols :
         /\ HasCol(df, c)
         /\ df.dtypes[ColPos(df, c)] = "object"
         /\ \A r \in 1..NRows(df) : ~IsNum(Column(df, c)[r])

\* C12: after the single-column fix of X6 followed by the loop over the
\* object-typed columns, every one of the 25 columns is float64 and no
\* column is object-typed.
C12_AllColumnsFloat64 ==
  JustRetyped =>
    /\ NCols(df) = NumCols
    /\ \A i \in 1..NCols(df) : df.dtypes[i] = "float64"

C12_Witness ==
  /\ JustRetyped
  /\ Loaded.dtypes[2] = "object"
  /\ Loaded.dtypes[NumCols] = "object"
  /\ df.dtypes[2] = "float64"
  /\ df.dtypes[7] = "float64"
  /\ df.dtypes[NumCols] = "float64"

\* C13: from the load on, after every cell, the table is rectangular:
\* there is one name, one dtype and one sequence of cells per column of
\* the header, every column has a cell for every row, and no two columns
\* share a name.
C13_TableStructure ==
  pc # "load" =>
    /\ NCols(df) = Len(sheet.header)
    /\ Len(df.dtypes) = NCols(df)
    /\ Len(df.data) = NCols(df)
    /\ \A i \in 1..NCols(df) : Len(df.data[i]) = NRows(df)
    /\ \A i, j \in 1..NCols(df) :
         i # j => df.columns[i] # df.columns[j]

C13_Witness ==
  /\ pc = "done"
  /\ NCols(df) = NumCols
  /\ NRows(df) > 1
  /\ df.columns[6] = "AGE"
  /\ df.columns[4] = "EDUCATION"
  /\ df.columns[7] = "PAY_SEPT"
  /\ df.columns[8] = "PAY_AUG"

\* A schema-level problem has shown: a key of dtypes_dict was no column
\* when the astype cell ran, or a key of column_mapping was no column when
\* the rename ran.
SchemaProblemSeen ==
  \/ msg = "Error converting data types"
  \/ last = "rename" /\ \E k \in MappingKeys : ~HasCol(Loaded, k)

\* A value-level anomaly is in the sheet: a cell that does not parse or a
\* code that is no key of its mapping.
ValueAnomalyInSheet ==
  \E r \in 2..Len(sheet.rows) :
    \/ \E i \in 1..NumCols : Unparseable(sheet.rows[r][i])
    \/ sheet.rows[r][4] \in {Num(0), Num(5), Num(6)}
    \/ sheet.rows[r][5] = Num(0)

C15_StrictlySequential ==
  [][/\ last' # last
     /\ last' = "load" => last = "none"
     /\ last' = "investigate" => last = "load"
     /\ last' = "astype" => last = "investigate"
     /\ last' = "x6" => last = "astype"
     /\ last' = "retype" => last = "x6"
     /\ last' = "rename" => last = "retype"
     /\ last' = "label" =>
          /\ last = "rename"
          /\ \A c \in LabelCols : HasCol(df, c)
          /\ err' = "none"
     /\ last # "label"]_vars

C15_Witness ==
  /\ pc = "done"
  /\ last = "label"
  /\ reruns = 0
  /\ err = "none"
  /\ \A c \in LabelCols : HasCol(df, c) /\ df.dtypes[ColPos(df, c)] = "object"
  /\ ~HasCol(df, "X2")

\* C16: one run of the notebook on a finite sheet eventually either
\* completes (every cell has run) or stops on an exception; it does not
\* stay in an intermediate cell for ever.
C16_RunTerminates ==
  <>(pc = "done" \/ err # "none")

C16_Witness ==
  /\ pc = "done"
  /\ err = "none"
  /\ last = "label"
  /\ naCount # <<>>
  /\ msg # ""

\* C17: the retype loop visits only the object-typed columns: a column
\* that is numeric when the loop starts (X6 after its own conversion) is
\* not reparsed; its dtype and its cells, missing markers included, are
\* after the loop what they were before it.
C17_NumericColumnsUntouched ==
  [][last' = "retype" =>
       \A i \in 1..NCols(df) :
         IsNumericDtype(df.dtypes[i]) =>
           /\ df'.columns[i] = df.columns[i]
           /\ df'.dtypes[i] = df.dtypes[i]
           /\ df'.data[i] = df.data[i]]_vars

C17_Witness ==
  /\ JustRetyped
  /\ df.columns[7] = "X6"
  /\ df.data[7] = ConvertColumn(Loaded, "X6").data[7]
  /\ df.data[7][1] = NaN
  /\ \E r \in 2..NRows(df) :
       Loaded.data[7][r] = Str(TxtMinus1) /\ df.data[7][r] = Num(-1)

\* d2 is d with the column called name replaced: every other column has
\* its name, dtype and cells, and the rows are as many and in the same
\* order.
OnlyColumnChanged(d, d2, name) ==
  /\ d2.columns = d.columns
  /\ NRows(d2) = NRows(d)
  /\ \A i \in 1..NCols(d) :
       /\ Len(d2.data[i]) = Len(d.data[i])
       /\ d.columns[i] # name =>
            (d2.dtypes[i] = d.dtypes[i] /\ d2.data[i] = d.data[i])

\* C18: applying the labeler to one column turns that column from numeric
\* into a column of labels and changes nothing else: every other column
\* keeps its name, dtype and cells, and the rows stay as many and in the
\* same order (each row's label is the label of that row's code).
C18_LabelerChangesOneColumn ==
  /\ pc = "label" =>
       \A k \in 1..Len(LabelStatements) :
         LET st == LabelStatements[k]
             d2 == MapColumn(df, st.col, st.map)
         IN  /\ IsNumericDtype(df.dtypes[ColPos(df, st.col)])
             /\ d2.dtypes[ColPos(d2, st.col)] = "object"
             /\ OnlyColumnChanged(df, d2, st.col)
             /\ \A r \in 0..(NRows(df) - 1) :
                  LET c == CellAt(df, st.col, r)
                  IN  (IsNum(c) /\ c.v \in DOMAIN st.map) =>
                        CellAt(d2, st.col, r) = Str(st.map[c.v])
  /\ JustLabeled =>
       /\ df.columns = Rename(RetypeLoop(ConvertColumn(Loaded, "X6"))).columns
       /\ NRows(df) = NRows(Loaded)
       /\ \A i \in 1..NCols(df) :
            IF df.columns[i] \in LabelCols THEN df.dtypes[i] = "object"
            ELSE /\ df.dtypes[i] = "float64"
                 /\ df.data[i] = RetypeLoop(Loaded).data[i]

C18_Witness ==
  /\ JustLabeled
  /\ NRows(df) > 2
  /\ df.dtypes[ColPos(df, "GENDER")] = "object"
  /\ df.dtypes[ColPos(df, "CREDIT_AMOUNT")] = "float64"
  /\ CellAt(df, "GENDER", 1) = Str(Male)
  /\ CellAt(df, "GENDER", 2) = Str(Female)
  /\ CellAt(df, "CREDIT_AMOUNT", 1) = Num(90000)
  /\ CellAt(df, "CREDIT_AMOUNT", 2) = Num(120000)

\* The table the labeling cell of the run starts from.
BeforeLabeling == Rename(RetypeLoop(ConvertColumn(Loaded, "X6")))

\* C19 (as stated): after labeling, a diagnostic count is reported for
\* each labeled column, equal to the number of its cells whose code was
\* no key of the mapping.
C19_UnmappedCountReported ==
  JustLabeled =>
    /\ Len(labelOut) = Len(LabelStatements)
    /\ \A k \in 1..Len(LabelStatements) :
         labelOut[k] = UnmappedCount(Column(BeforeLabeling,
                                            LabelStatements[k].col),
                                     LabelStatements[k].map)

\* C19 (amended): unmapped codes are dropped silently: the labeling cell
\* reports nothing (it prints nothing and leaves the earlier diagnostics
\* as they were); each cell whose code was no key becomes the missing
\* marker, so the count shows only in the table, as the column's missing
\* count after labeling minus its missing count before.
C19_UnmappedCodesSilent ==
  JustLabeled =>
    /\ labelOut = <<>>
    /\ naCount = Investigate(Loaded)
    /\ msg = "Error converting data types"
    /\ err = "none"
    /\ \A k \in 1..Len(LabelStatements) :
         LET st == LabelStatements[k]
             before == Column(BeforeLabeling, st.col)
         IN  NaCount(Column(df, st.col))
               = NaCount(before) + UnmappedCount(before, st.map)

C19_Witness ==
  /\ JustLabeled
  /\ labelOut = <<>>
  /\ UnmappedCount(Column(BeforeLabeling, "MARITAL_STATUS"), MaritalMap) = 1
  /\ UnmappedCount(Column(BeforeLabeling, "EDUCATION"), EducationMap) = 2
  /\ NaCount(Column(df, "EDUCATION")) = 3
  /\ NaCount(Column(df, "MARITAL_STATUS")) = 2

\* C20: no cell of the notebook adds or removes a row: from the load on,
\* in every reachable state, the table has the rows the load produced,
\* one per row of the sheet below the positional header (the label row
\* included), in every column.
C20_RowCountConstant ==
  pc # "load" =>
    /\ NRows(df) = Len(sheet.rows)
    /\ NRows(df) = NRows(Loaded)
    /\ \A i \in 1..NCols(df) : Len(df.data[i]) = Len(sheet.rows)

C20_Witness ==
  /\ pc = "done"
  /\ reruns > 0
  /\ last = "retype"
  /\ NRows(df) = Len(sheet.rows)
  /\ NRows(df) > 2
  /\ \A r \in 1..NRows(df) : IsNaN(Column(df, "GENDER")[r])

\* C21: the label row is never removed, so the table keeps every row of
\* the sheet and, once the retype loop has run, row 0 (the label row) holds
\* the missing marker in each of the 25 columns; for a sheet whose other
\* rows are all numeric each column then contains exactly one missing
\* value; and after the labeling cell row 0 of GENDER, EDUCATION and
\* MARITAL_STATUS is still missing.
C21_LabelRowBecomesMissing ==
  /\ pc # "load" => NRows(df) = Len(sheet.rows)
  /\ Retyped =>
       /\ NCols(df) = NumCols
       /\ \A i \in 1..NumCols :
            /\ Loaded.data[i][1] = Str(LabelRow[i].s)
            /\ df.data[i][1] = NaN
  /\ (JustRetyped /\ Canonical(sheet)) =>
       \A i \in 1..NumCols : NaCount(df.data[i]) = 1
  /\ JustLabeled =>
       \A c \in LabelCols : CellAt(df, c, 0) = NaN

C21_Witness ==
  /\ JustLabeled
  /\ Canonical(sheet)
  /\ NRows(df) > 1
  /\ CellAt(Loaded, "X2", 0) = Str(LabelRow[3].s)
  /\ CellAt(df, "GENDER", 0) = NaN
  /\ CellAt(df, "EDUCATION", 0) = NaN
  /\ CellAt(df, "MARITAL_STATUS", 0) = NaN
  /\ CellAt(df, "GENDER", 1) \in {Str(Male), Str(Female)}
  /\ NaCount(Column(df, "CREDIT_AMOUNT")) = 1

\* C22: the dictionary-driven type conversion is all-or-nothing: when a
\* key of dtypes_dict is not a column of the table ('ID' against
\* 'Unnamed: 0', 'X1', ...), the conversion raises, the exception is
\* caught (the error message is printed and nothing stops the run), the
\* table is exactly what it was, names, types and cells, and the next cell
\* is the one to run.
C22_AstypeAllOrNothing ==
  [][(/\ last' = "astype"
      /\ \E k \in 1..Len(DtypesDict) : ~HasCol(df, DtypesDict[k][1])) =>
       /\ df' = df
       /\ msg' = "Error converting data types"
       /\ err' = "none"
       /\ pc' = "x6"]_vars

C22_Witness ==
  /\ last = "astype"
  /\ pc = "x6"
  /\ ~HasCol(df, "ID")
  /\ HasCol(df, "Unnamed: 0")
  /\ HasCol(df, "X1")
  /\ df = Loaded
  /\ df.dtypes[2] = "object"
  /\ \E r \in 2..NRows(df) : IsNum(df.data[2][r])
  /\ msg = "Error converting data types"
  /\ err = "none"

\* C23: the rename changes exactly the columns whose current name is a key
\* of column_mapping and leaves every other column as it was; in the run
\* these are X1..X23: 'Unnamed: 0' and 'Y' keep their names, no column's
\* cells or type change, the table still has 25 columns, and no column is
\* named 'DEFAULT' afterwards.
C23_RenameChangesExactlyKeyedColumns ==
  [][last' = "rename" =>
       /\ NCols(df') = NCols(df)
       /\ df'.data = df.data
       /\ df'.dtypes = df.dtypes
       /\ \A i \in 1..NCols(df) :
            IF df.columns[i] \in MappingKeys
            THEN /\ df'.columns[i] # df.columns[i]
                 /\ \E k \in 1..Len(ColumnMapping) :
                      ColumnMapping[k] = <<df.columns[i], df'.columns[i]>>
            ELSE df'.columns[i] = df.columns[i]
       /\ pc = "rename" =>
            /\ {i \in 1..NCols(df) : df'.columns[i] # df.columns[i]}
                 = 2..(NumCols - 1)
            /\ df'.columns[1] = "Unnamed: 0"
            /\ df'.columns[NumCols] = "Y"
            /\ NCols(df') = NumCols
            /\ ~HasCol(df', "DEFAULT")]_vars

C23_Witness ==
  /\ JustRenamed
  /\ Loaded.columns[1] = "Unnamed: 0"
  /\ Loaded.columns[2] = "X1"
  /\ Loaded.columns[24] = "X23"
  /\ df.columns[1] = "Unnamed: 0"
  /\ df.columns[2] = "CREDIT_AMOUNT"
  /\ df.columns[3] = "GENDER"
  /\ df.columns[24] = "PAY_AMT_APR"
  /\ df.columns[NumCols] = "Y"
  /\ ~HasCol(df, "DEFAULT")
  /\ df.data = RetypeLoop(ConvertColumn(Loaded, "X6")).data

\* C24: re-executing the retype loop on a table on which it has already
\* run and which has not yet been labeled is a no-op: no column is
\* object-typed any more, so the loop body runs zero times, and every
\* name, cell, type and missing count is what it was.
C24_SecondRetypeIsNoOp ==
  [][(last' = "retype" /\ pc \in {"rename", "label"}) =>
       /\ {i \in 1..NCols(df) : df.dtypes[i] = "object"} = {}
       /\ df' = df
       /\ \A i \in 1..NCols(df) :
            NaCount(df'.data[i]) = NaCount(df.data[i])
       /\ err' = "none"]_vars

C24_Witness ==
  /\ last = "retype"
  /\ pc = "label"
  /\ reruns > 0
  /\ df = BeforeLabeling
  /\ \A i \in 1..NCols(df) : df.dtypes[i] = "float64"
  /\ \E r \in 2..NRows(df) :
       Loaded.data[2][r] = Str(TxtNA) /\ df.data[2][r] = NaN

\* C25: cell order matters on the shared table: when the retype loop is
\* executed again after the labeling cell, the labeled columns GENDER,
\* EDUCATION and MARITAL_STATUS are object-typed and are reparsed, every
\* label in them is coerced to the missing marker, so these columns end up
\* entirely missing, and every other column is unchanged.
C25_RetypeAfterLabelingErasesLabels ==
  [][(last' = "retype" /\ pc = "done" /\ AlreadyLabeled(df)) =>
       /\ df'.columns = df.columns
       /\ \A i \in 1..NCols(df) :
            IF df.columns[i] \in LabelCols
            THEN /\ df'.dtypes[i] = "float64"
                 /\ \A r \in 1..NRows(df) : df'.data[i][r] = NaN
            ELSE /\ df'.dtypes[i] = df.dtypes[i]
                 /\ df'.data[i] = df.data[i]]_vars

C25_Witness ==
  /\ last = "retype"
  /\ pc = "done"
  /\ reruns = 1
  /\ \E r \in 1..(NRows(df) - 1) :
       /\ CellAt(BeforeLabeling, "GENDER", r) = Num(1)
       /\ CellAt(LabelCell(BeforeLabeling).df, "GENDER", r) = Str(Male)
       /\ CellAt(df, "GENDER", r) = NaN
  /\ \A c \in LabelCols :
       /\ df.dtypes[ColPos(df, c)] = "float64"
       /\ NaCount(Column(df, c)) = NRows(df)
  /\ Column(df, "CREDIT_AMOUNT") = Column(BeforeLabeling, "CREDIT_AMOUNT")

\* C26: re-executing the rename cell on an already renamed table is a
\* no-op and raises no error: none of the mapping's keys is a column name
\* any more and no target name is also a key, so the column names, their
\* order and every value are unchanged.
C26_SecondRenameIsNoOp ==
  [][(last' = "rename" /\ pc \in {"label", "done"}) =>
       /\ \A k \in MappingKeys : ~HasCol(df, k)
       /\ \A k \in 1..Len(ColumnMapping) :
            ColumnMapping[k][2] \notin MappingKeys
       /\ df' = df
       /\ err' = "none"]_vars

C26_Witness ==
  /\ last = "rename"
  /\ pc = "done"
  /\ reruns > 0
  /\ err = "none"
  /\ df.columns = BeforeLabeling.columns
  /\ df.columns[2] = "CREDIT_AMOUNT"
  /\ ~HasCol(df, "X1")
  /\ df.dtypes[ColPos(df, "GENDER")] = "object"

====
